---- MODULE Spec2Model ----
(***************************************************************************)
(* Model of clone_server (mysql/utilities/command/serverclone.py).         *)
(*                                                                         *)
(* clone_server is one sequential function.  Each action below is one      *)
(* block of its statements; pc is the position of the call, err the        *)
(* exception that ended it (NoErr while it runs or after it returned).     *)
(* The file system, the source server, the child processes and the new     *)
(* instance are the environment: every outcome they can produce is a       *)
(* nondeterministic choice of the action that meets them.                  *)
(***************************************************************************)
EXTENDS Integers, Sequences, FiniteSets

(* ----------------------------- bounds ---------------------------------- *)

\* Files that may lie in the target directory before the call: 1..MaxFiles.
MaxFiles == 2

\* Exit statuses of a child process: 0..MaxExit.
MaxExit == 1

(* ------------------------ program constants ---------------------------- *)

\* stop = 10 # stop after 10 attempts
stop == 10

\* The name of the bootstrap script, relative to the working directory.
BootstrapFile == "bootstrap.sql"

\* The two executables and the four seed files, in the order of the lookups.
Tools ==
    << "mysqld", "mysqladmin",
       "mysql_system_tables.sql", "mysql_system_tables_data.sql",
       "mysql_test_data_timezone.sql", "fill_help_tables.sql" >>

\* The data of the system tables written before their schema.
SeedFiles_DataFirst == << Tools[4], Tools[3], Tools[5], Tools[6] >>

\* system_tables, system_tables_data, test_data_timezone, help_data: the
\* order in which their lines are written to the bootstrap script.
SeedFiles == SubSeq(Tools, 3, 6)

\* f_boot.write("CREATE DATABASE mysql;\n"); f_boot.write("USE mysql;\n")
Preamble == << "CREATE DATABASE mysql;", "USE mysql;" >>

(* ------------------------------ inputs --------------------------------- *)

\* Values of new_data the model calls clone_server with.
DataDirs == { "", "/tmp/clone1" }

\* Values of new_port: a port, the same port written with a leading zero, a
\* non-number, a number that is no port.
Ports == { "3307", "03307", "abc", "70000" }

\* Values of rootpass.
RootPasses == { "", "secret" }

\* Values of mysqld_options (None and "" are both false in Python).
MysqldOptions == { "", "--log-bin" }

\* The server id the model calls clone_server with.
new_id == "101"

\* conn_val["host"]
SourceHost == "localhost"

\* The basedir the source server reports.
SourceBasedir == "/opt/db/"

VARIABLES
    new_data,       \* parameter: the target data directory
    new_port,       \* parameter: the port, as given (a string)
    rootpass,       \* parameter: the root password, "" when none
    mysqld_options, \* parameter: extra options, "" when none
    verbose,        \* parameter
    quiet,          \* parameter
    posix,          \* os.name == "posix"
    pc,             \* the position of the call
    err,            \* the exception that ended the call, or NoErr
    dirExists,      \* os.path.exists(new_data)
    dirFiles,       \* the files of before the call still in new_data
    bootFile,       \* os.path.isfile("bootstrap.sql")
    script,         \* the lines written to bootstrap.sql so far
    scriptClosed,   \* f_boot.close() was called
    mysql_basedir,  \* local variable mysql_basedir (pieces of the string)
    procs,          \* the child processes started, in order
    res,            \* exit statuses waited for: [bootstrap, admin], -1 = none
    i,              \* loop counter of the readiness loop
    connected,      \* server2.connect() succeeded
    log,            \* the side effects performed, in order
    out             \* the messages printed, in order

params == << new_data, new_port, rootpass, mysqld_options, verbose, quiet, posix >>
fsVars == << dirExists, dirFiles, bootFile, script, scriptClosed >>
vars == << params, pc, err, fsVars, mysql_basedir, procs, res, i, connected, log, out >>

NoErr == [exc |-> "none", msg |-> ""]

Err(exc, msg) == [exc |-> exc, msg |-> msg]

\* The call is over: it returned, or an exception left it.
Terminated == pc = "returned" \/ err # NoErr

\* print under "if not quiet:"
Say(msg) == IF ~quiet THEN Append(out, msg) ELSE out

\* The test of quiet left out: "if verbose".
ShowOutput_VerboseOnly == verbose

\* "if verbose and not quiet": the child's output is shown; otherwise
\* stdout and stderr go to fnull.
ShowOutput == verbose /\ ~quiet

Popen(kind, cmd) == [kind |-> kind, cmd |-> cmd, devnull |-> ~ShowOutput]

\* os.path.exists("") is False and os.mkdir("") raises.
ValidPath(p) == p # ""

Init ==
    /\ new_data \in DataDirs
    /\ new_port \in Ports
    /\ rootpass \in RootPasses
    /\ mysqld_options \in MysqldOptions
    /\ verbose \in BOOLEAN
    /\ quiet \in BOOLEAN
    /\ posix \in BOOLEAN
    /\ pc = "start"
    /\ err = NoErr
    /\ dirExists \in (IF ValidPath(new_data) THEN BOOLEAN ELSE {FALSE})
    /\ dirFiles \in (IF dirExists THEN SUBSET (1..MaxFiles) ELSE {{}})
    /\ bootFile = FALSE
    /\ script = << >>
    /\ scriptClosed = FALSE
    /\ mysql_basedir = << >>
    /\ procs = << >>
    /\ res = [bootstrap |-> -1, admin |-> -1]
    /\ i = 0
    /\ connected = FALSE
    /\ log = << >>
    /\ out = << >>

At(label) == pc = label /\ err = NoErr

\* An exception leaves the call where it is.
Raise(e) == err' = e /\ pc' = pc

(* -------------------- lines 64-69: the source server ------------------- *)

\* Server.connect(): the session, or a connection error.
ServerConnectOutcomes == { "ok", "error" }

\* The target directory removed before the source is connected to.
ConnectSource_RemovesFirst ==
    /\ At("start")
    /\ \E r \in ServerConnectOutcomes :
        IF r = "ok"
        THEN /\ pc' = "mkdir"
             /\ err' = err
             /\ out' = Say(<< "# Cloning the MySQL server running on ", SourceHost >>)
        ELSE /\ Raise(Err("ConnectionError", "source"))
             /\ out' = out
    /\ dirExists' = FALSE
    /\ dirFiles' = {}
    /\ log' = log \o << "rmtree", "connect_source" >>
    /\ UNCHANGED << params, bootFile, script, scriptClosed, mysql_basedir, procs,
                    res, i, connected >>

ConnectSource ==
    /\ At("start")
    /\ \E r \in ServerConnectOutcomes :
        IF r = "ok"
        THEN /\ pc' = "rmtree"
             /\ err' = err
             /\ out' = Say(<< "# Cloning the MySQL server running on ", SourceHost >>)
        ELSE /\ Raise(Err("ConnectionError", "source"))
             /\ out' = out
    /\ log' = Append(log, "connect_source")
    /\ UNCHANGED << params, fsVars, mysql_basedir, procs, res, i, connected >>

(* ------------------ lines 71-82: the target directory ------------------ *)

\* shutil.rmtree(new_data, True): errors are ignored, so any part of the
\* tree may survive; the directory itself goes only when it was emptied.
RmtreeOutcomes(files) ==
    { [exists |-> TRUE, files |-> left] : left \in SUBSET files }
        \cup { [exists |-> FALSE, files |-> {}] }

RemoveDir ==
    /\ At("rmtree")
    /\ IF dirExists
       THEN /\ \E r \in RmtreeOutcomes(dirFiles) :
                /\ dirExists' = r.exists
                /\ dirFiles' = r.files
            /\ log' = Append(log, "rmtree")
       ELSE UNCHANGED << dirExists, dirFiles, log >>
    /\ pc' = "mkdir"
    /\ out' = Say(<< "# Creating new data directory..." >>)
    /\ UNCHANGED << params, err, bootFile, script, scriptClosed, mysql_basedir,
                    procs, res, i, connected >>

\* os.mkdir(new_data): creates the directory or raises.
MkdirOutcomes(path) == IF ValidPath(path) THEN { "ok", "error" } ELSE { "error" }

\* The except clause passing over the error instead of raising.
CreateDir_IgnoreError ==
    /\ At("mkdir")
    /\ IF ~dirExists
       THEN /\ \E r \in MkdirOutcomes(new_data) :
                dirExists' = (r = "ok")
            /\ log' = Append(log, "mkdir")
       ELSE UNCHANGED << dirExists, log >>
    /\ pc' = "basedir"
    /\ UNCHANGED << params, err, dirFiles, bootFile, script, scriptClosed,
                    mysql_basedir, procs, res, i, connected, out >>

CreateDir ==
    /\ At("mkdir")
    /\ IF ~dirExists
       THEN /\ \E r \in MkdirOutcomes(new_data) :
                IF r = "ok"
                THEN /\ dirExists' = TRUE
                     /\ pc' = "basedir"
                     /\ err' = err
                ELSE /\ Raise(Err("MySQLUtilError", "Unable to create directory"))
                     /\ dirExists' = dirExists
            /\ log' = Append(log, "mkdir")
       ELSE /\ pc' = "basedir"
            /\ UNCHANGED << err, dirExists, log >>
    /\ UNCHANGED << params, dirFiles, bootFile, script, scriptClosed, mysql_basedir,
                    procs, res, i, connected, out >>

(* --------------------- lines 84-92: the basedir ------------------------ *)

\* server1.exec_query("SHOW VARIABLES LIKE 'basedir'"): the rows, maybe none.
ExecQueryOutcomes == { "rows", "empty" }

GetBasedir ==
    /\ At("basedir")
    /\ \E r \in ExecQueryOutcomes :
        IF r = "rows"
        THEN pc' = "locate" /\ err' = err
        ELSE Raise(Err("MySQLUtilError", "Unable to determine basedir of running server."))
    /\ out' = Say(<< "# Configuring new instance..." >>)
    /\ log' = Append(log, "query_basedir")
    /\ UNCHANGED << params, fsVars, mysql_basedir, procs, res, i, connected >>

(* ------------------- lines 94-121: path resolution --------------------- *)

\* The index in s of the first element that is in bad; 0 when there is none.
FirstIn(s, bad) ==
    IF \E k \in DOMAIN s : s[k] \in bad
    THEN CHOOSE k \in DOMAIN s : s[k] \in bad /\ \A j \in 1..(k - 1) : s[j] \notin bad
    ELSE 0

\* get_tool_path(basedir, tool) of a file that is found: a path under basedir.
ToolPath(tool) == << SourceBasedir, tool >>

\* get_tool_path of a required file that is not found fails, naming the file.
GetToolPathError(tool) == Err("MissingInstallationFile", tool)

\* The lookups of lines 96-108 in order, given the files absent under
\* basedir: the first absent one ends the call.  The lookup of line 98 is
\* not required and its result is overwritten in line 100.
LocateResult(absent) ==
    LET k == FirstIn(Tools, absent)
    IN  IF k = 0 THEN NoErr ELSE GetToolPathError(Tools[k])

\* mysql_basedir = basedir, plus "local/mysql/" when that layout exists.
MysqlBasedir(local) ==
    IF local THEN << SourceBasedir, "local/mysql/" >> ELSE << SourceBasedir >>

LocationsShown ==
    << << "Location of files:" >> >>
        \o [k \in 1..Len(Tools) |-> << Tools[k], ": " >> \o ToolPath(Tools[k])]

LocateTools ==
    /\ At("locate")
    /\ \E absent \in SUBSET { Tools[k] : k \in DOMAIN Tools }, local \in BOOLEAN :
        LET e == LocateResult(absent)
            o1 == Say(<< "# Locating mysql tools..." >>)
            o2 == IF ShowOutput THEN o1 \o LocationsShown ELSE o1
        IN  IF e = NoErr
            THEN /\ pc' = "write_script"
                 /\ err' = err
                 /\ mysql_basedir' = MysqlBasedir(local)
                 /\ out' = IF ~quiet
                           THEN Append(o2, << "# Setting up empty database and mysql tables..." >>)
                           ELSE o2
            ELSE /\ Raise(e)
                 /\ mysql_basedir' = mysql_basedir
                 /\ out' = o1
    /\ log' = Append(log, "locate")
    /\ UNCHANGED << params, fsVars, procs, res, i, connected >>

(* ----------------- lines 123-131: the bootstrap script ----------------- *)

\* open(path).readlines(): the lines of a seed file.
ReadLines(file) == << file >>

\* The lines of the first n seed files, in order.
RECURSIVE SeedLines(_)
SeedLines(n) == IF n = 0 THEN << >> ELSE SeedLines(n - 1) \o ReadLines(SeedFiles[n])

\* open("bootstrap.sql", 'w') may fail; then each seed file is opened and
\* read in turn, and the first that cannot be read raises with f_boot open.
WriteBootstrap ==
    /\ At("write_script")
    /\ \E opened \in BOOLEAN, unreadable \in SUBSET { SeedFiles[k] : k \in DOMAIN SeedFiles } :
        LET k == FirstIn(SeedFiles, unreadable)
        IN  IF ~opened
            THEN /\ Raise(Err("IOError", BootstrapFile))
                 /\ UNCHANGED << bootFile, script, scriptClosed >>
            ELSE /\ bootFile' = TRUE
                 /\ IF k = 0
                    THEN /\ script' = Preamble \o SeedLines(Len(SeedFiles))
                         /\ scriptClosed' = TRUE
                         /\ pc' = "popen_bootstrap"
                         /\ err' = err
                    ELSE /\ script' = Preamble \o SeedLines(k - 1)
                         /\ scriptClosed' = FALSE
                         /\ Raise(Err("IOError", SeedFiles[k]))
    /\ log' = Append(log, "write_script")
    /\ UNCHANGED << params, dirExists, dirFiles, mysql_basedir, procs, res, i,
                    connected, out >>

(* --------------- lines 133-149: the bootstrap subprocess --------------- *)

\* subprocess.Popen(cmd, shell=True): the child, or an OSError.
PopenOutcomes == { "started", "error" }

\* proc.wait(): the exit status of the child.
ExitCodes == 0..MaxExit

BootstrapCmd ==
    << ToolPath("mysqld"), << "--no-defaults" >>, << "--bootstrap" >>,
       << "--datadir=", new_data >>, << "--basedir=" >> \o mysql_basedir,
       << "<", BootstrapFile >> >>

SpawnBootstrap ==
    /\ At("popen_bootstrap")
    /\ \E r \in PopenOutcomes :
        IF r = "started"
        THEN /\ procs' = Append(procs, Popen("bootstrap", BootstrapCmd))
             /\ pc' = "wait_bootstrap"
             /\ err' = err
        ELSE /\ Raise(Err("OSError", "bootstrap"))
             /\ procs' = procs
    /\ log' = Append(log, "popen_bootstrap")
    /\ UNCHANGED << params, fsVars, mysql_basedir, res, i, connected, out >>

\* The variable proc after an assignment that skipped the admin Popen: it
\* still holds the server process.
proc_NotReassigned == IF Len(procs) = 3 THEN 2 ELSE Len(procs)

\* The local variable proc: every Popen is assigned to it, so it holds the
\* child started last (an index of procs).
proc == Len(procs)

\* proc.wait() blocks until the child that proc holds has exited.
WaitEvent(child) ==
    CASE child.kind = "bootstrap" -> "wait_bootstrap"
      [] child.kind = "server" -> "wait_server"
      [] child.kind = "admin" -> "wait_admin"

\* res = proc.wait(): the status is stored and not looked at again.
WaitBootstrap ==
    /\ At("wait_bootstrap")
    /\ \E code \in ExitCodes : res' = [res EXCEPT !.bootstrap = code]
    /\ pc' = "unlink_script"
    /\ log' = Append(log, WaitEvent(procs[proc]))
    /\ UNCHANGED << params, err, fsVars, mysql_basedir, procs, i, connected, out >>

DropBootstrap ==
    /\ At("unlink_script")
    /\ IF bootFile
       THEN bootFile' = FALSE /\ log' = Append(log, "unlink_script")
       ELSE UNCHANGED << bootFile, log >>
    /\ pc' = "popen_server"
    /\ UNCHANGED << params, err, dirExists, dirFiles, script, scriptClosed,
                    mysql_basedir, procs, res, i, connected, out >>

(* ------------------ lines 151-167: the server process ------------------ *)

\* The command line of the new instance, option by option.
LaunchCmd ==
    << ToolPath("mysqld"), << "--no-defaults" >> >>
        \o (IF mysqld_options # "" THEN << << mysqld_options >>, << "--user=root" >> >>
                                   ELSE << >>)
        \o << << "--datadir=", new_data >>,
              << "--tmpdir=", new_data >>,
              << "--pid-file=", new_data, "/clone.pid" >>,
              << "--port=", new_port >>,
              << "--server-id=", new_id >>,
              << "--basedir=" >> \o mysql_basedir,
              << "--socket=", new_data, "/mysql.sock" >> >>

\* The launch tried again when Popen fails.
LaunchServer_Retry ==
    /\ At("popen_server")
    /\ \E r \in PopenOutcomes :
        IF r = "started"
        THEN /\ procs' = Append(procs, Popen("server", LaunchCmd))
             /\ pc' = "conn"
        ELSE /\ procs' = procs
             /\ pc' = pc
    /\ out' = Say(<< "# Starting new instance of the server..." >>)
    /\ log' = Append(log, "popen_server")
    /\ UNCHANGED << params, err, fsVars, mysql_basedir, res, i, connected >>

\* The process is started and not waited for.
LaunchServer ==
    /\ At("popen_server")
    /\ \E r \in PopenOutcomes :
        IF r = "started"
        THEN /\ procs' = Append(procs, Popen("server", LaunchCmd))
             /\ pc' = "conn"
             /\ err' = err
        ELSE /\ Raise(Err("OSError", "server"))
             /\ procs' = procs
    /\ out' = Say(<< "# Starting new instance of the server..." >>)
    /\ log' = Append(log, "popen_server")
    /\ UNCHANGED << params, fsVars, mysql_basedir, res, i, connected >>

(* ---------------- lines 169-185: the new connection -------------------- *)

\* int(new_port) raises ValueError unless the string is a number.
IsNumber(p) == p \in { "3307", "03307", "70000" }

IntOf(p) == IF p \in { "3307", "03307" } THEN 3307 ELSE 70000

\* "%s" % n of an integer: its decimal digits, without leading zeros.
StrOf(n) == IF n = 3307 THEN "3307" ELSE "70000"

\* The socket chosen on every platform.
new_sock_Always == << new_data, "/mysql.sock" >>

\* new_sock: the socket file under new_data on posix, None (<< >>) elsewhere.
new_sock == IF posix THEN << new_data, "/mysql.sock" >> ELSE << >>

\* The connection dictionary of server2.
conn ==
    [user |-> "root", passwd |-> "", host |-> SourceHost,
     port |-> IntOf(new_port), unix_socket |-> new_sock]

PrepareConn ==
    /\ At("conn")
    /\ IF IsNumber(new_port)
       THEN pc' = "probe" /\ err' = err
       ELSE Raise(Err("ValueError", new_port))
    /\ out' = Say(<< "# Testing connection to new instance..." >>)
    /\ UNCHANGED << params, fsVars, mysql_basedir, procs, res, i, connected, log >>

(* ---------------- lines 187-204: the readiness loop -------------------- *)

\* The loop with its bound off by one: while i <= stop.
LoopCond_OneMore(n) == n <= stop

\* while i < stop
LoopCond(n) == n < stop

\* The loop left by setting i to the bound itself: i = stop.
OnConnected_AtStop == stop

\* i = stop + 1, after a connect() that succeeded
OnConnected == stop + 1

\* The increment left out of the loop.
Increment_Forgotten(n) == n

\* i += 1
Increment(n) == n + 1

\* if i == stop: the loop ran out of attempts
Exhausted(n) == n = stop

\* server2.connect(): connects or raises; the exception is passed over.
ConnectOutcomes == { "ok", "error" }

\* One pass of the loop: i += 1, the sleep, the attempt, the finally clause.
ProbeAttempt ==
    /\ At("probe")
    /\ LoopCond(i)
    /\ \E r \in ConnectOutcomes :
        IF r = "ok"
        THEN /\ i' = OnConnected
             /\ connected' = TRUE
             /\ log' = log \o << "sleep", "connect_ok" >>
        ELSE /\ i' = Increment(i)
             /\ connected' = connected
             /\ log' = log \o << "sleep", "connect_error" >>
    /\ out' = IF ShowOutput THEN Append(out, << "# trying again..." >>) ELSE out
    /\ UNCHANGED << params, pc, err, fsVars, mysql_basedir, procs, res >>

LoopExit ==
    /\ At("probe")
    /\ ~LoopCond(i)
    /\ pc' = "probe_check"
    /\ UNCHANGED << params, err, fsVars, mysql_basedir, procs, res, i, connected,
                    log, out >>

ProbeCheck ==
    /\ At("probe_check")
    /\ IF Exhausted(i)
       THEN /\ Raise(Err("MySQLUtilError", "Unable to communicate with new instance."))
            /\ out' = out
       ELSE /\ pc' = "set_pass"
            /\ err' = err
            /\ out' = Say(<< "# Success!" >>)
    /\ UNCHANGED << params, fsVars, mysql_basedir, procs, res, i, connected, log >>

(* ---------------- lines 206-223: the root password --------------------- *)

\* The test of rootpass left out: the password is always set.
HasPassword_Always(p) == TRUE

\* if rootpass:
HasPassword(p) == p # ""

AdminCmd ==
    << ToolPath("mysqladmin"), << "--no-defaults" >>, << "-v" >>, << "-uroot" >> >>
        \o (IF posix
            THEN << << "--socket=" >> \o new_sock, << "password", rootpass >> >>
            ELSE << << "password", rootpass >>, << "--port=", StrOf(IntOf(new_port)) >> >>)

SetPassword ==
    /\ At("set_pass")
    /\ IF HasPassword(rootpass)
       THEN /\ \E r \in PopenOutcomes :
                IF r = "started"
                THEN /\ procs' = Append(procs, Popen("admin", AdminCmd))
                     /\ pc' = "wait_admin"
                     /\ err' = err
                ELSE /\ Raise(Err("OSError", "admin"))
                     /\ procs' = procs
            /\ out' = Say(<< "# Setting the root password..." >>)
            /\ log' = Append(log, "popen_admin")
       ELSE /\ pc' = "report"
            /\ UNCHANGED << err, procs, out, log >>
    /\ UNCHANGED << params, fsVars, mysql_basedir, res, i, connected >>

\* res = proc.wait(): the status is stored and not looked at again.
WaitAdmin ==
    /\ At("wait_admin")
    /\ \E code \in ExitCodes : res' = [res EXCEPT !.admin = code]
    /\ pc' = "report"
    /\ log' = Append(log, WaitEvent(procs[proc]))
    /\ UNCHANGED << params, err, fsVars, mysql_basedir, procs, i, connected, out >>

(* ------------------- lines 225-237: the report ------------------------- *)

ConnStr ==
    << "# Connection Information:", "#  -uroot" >>
        \o (IF HasPassword(rootpass) THEN << " -p", rootpass >> ELSE << >>)
        \o (IF posix THEN << " --socket=" >> \o new_sock
                     ELSE << " --port=", new_port >>)

Report ==
    /\ At("report")
    /\ out' = IF ~quiet THEN out \o << ConnStr, << "#...done." >> >> ELSE out
    /\ pc' = "returned"
    /\ UNCHANGED << params, err, fsVars, mysql_basedir, procs, res, i, connected, log >>

Next ==
    \/ ConnectSource
    \/ RemoveDir
    \/ CreateDir
    \/ GetBasedir
    \/ LocateTools
    \/ WriteBootstrap
    \/ SpawnBootstrap
    \/ WaitBootstrap
    \/ DropBootstrap
    \/ LaunchServer
    \/ PrepareConn
    \/ ProbeAttempt
    \/ LoopExit
    \/ ProbeCheck
    \/ SetPassword
    \/ WaitAdmin
    \/ Report

Spec == Init /\ [][Next]_vars

\* A call that can take a step takes it: the function is sequential code and
\* the children it waits for are assumed to exit.
FairSpec == Spec /\ WF_vars(Next)

(* ======================== properties =================================== *)

Events == { log[k] : k \in DOMAIN log }

Count(ev) == Cardinality({ k \in DOMAIN log : log[k] = ev })

ProbeEvents == { "sleep", "connect_ok", "connect_error" }

Attempts == Count("connect_ok") + Count("connect_error")

Started(kind) == \E k \in DOMAIN procs : procs[k].kind = kind

Printed(msg) == \E k \in DOMAIN out : out[k] = msg

Unreachable == Err("MySQLUtilError", "Unable to communicate with new instance.")

\* The step an effect belongs to: 1 directory preparation, 2 path
\* resolution, 3 bootstrap, 4 launch, 5 readiness polling, 6 credential.
StepOf(ev) ==
    CASE ev \in { "rmtree", "mkdir" } -> 1
      [] ev \in { "query_basedir", "locate" } -> 2
      [] ev \in { "write_script", "popen_bootstrap", "wait_bootstrap", "unlink_script" } -> 3
      [] ev = "popen_server" -> 4
      [] ev \in ProbeEvents -> 5
      [] ev \in { "popen_admin", "wait_admin" } -> 6
      [] OTHER -> 0

StepsInOrder ==
    \A a, b \in DOMAIN log : a < b => StepOf(log[a]) <= StepOf(log[b])

\* The errors the specification names and clone_server has no raise for.
BootstrapFailed(code) == [exc |-> "BootstrapFailed", code |-> code]

CredentialAssignmentFailed(code) == [exc |-> "CredentialAssignmentFailed", code |-> code]

\* C1 (as claimed): the steps occur in the fixed order directory
\* preparation, path resolution, bootstrap, launch, readiness polling,
\* credential assignment; once a step has failed (an exception, or a child
\* that exits non-zero) no later step is performed and the call does not
\* return normally.
C1_OrderedAndAbortsOnFirstFailure ==
    /\ StepsInOrder
    /\ res.bootstrap > 0 => \A k \in DOMAIN log : StepOf(log[k]) <= 3
    /\ (res.bootstrap > 0 \/ res.admin > 0) => pc # "returned"
    /\ err # NoErr => ~ENABLED Next

\* C2 (as claimed): a bootstrap subprocess that exits non-zero ends the call
\* with BootstrapFailed carrying the exit code; the server is never launched,
\* no readiness connection is attempted and no admin command is run.
C2_BootstrapFailureAborts ==
    res.bootstrap > 0 =>
        /\ "popen_server" \notin Events
        /\ "popen_admin" \notin Events
        /\ Attempts = 0
        /\ pc # "returned"
        /\ Terminated => err = BootstrapFailed(res.bootstrap)

\* C3 (as claimed): when the call is over (returned or raised), the
\* bootstrap script file does not exist.
C3_ScriptGoneOnEveryExit ==
    Terminated => ~bootFile

\* C4: the readiness loop never makes more than stop attempts, every attempt
\* directly follows one sleep, a failed attempt raises nothing, and when the
\* loop is over without any connection it made exactly stop attempts and
\* stop sleeps and the call ends with "Unable to communicate with new
\* instance." without "# Success!" being printed.
C4_NeverReachableExhaustsAttempts ==
    /\ Attempts <= stop
    /\ Count("sleep") = Attempts
    /\ \A k \in DOMAIN log :
            log[k] \in { "connect_ok", "connect_error" } => k > 1 /\ log[k - 1] = "sleep"
    /\ pc = "probe" => err = NoErr
    /\ (pc = "probe_check" /\ ~connected) => Attempts = stop /\ i = stop
    /\ (pc \notin { "probe", "probe_check" } /\ Attempts > 0) => connected
    /\ (Terminated /\ Attempts > 0 /\ ~connected) =>
            /\ err = Unreachable
            /\ Attempts = stop
            /\ ~Printed(<< "# Success!" >>)
            /\ ~Started("admin")

\* C4 witness: ten failed attempts and the call has raised.
C4_Witness ==
    /\ err = Unreachable
    /\ Count("connect_error") = stop
    /\ Count("sleep") = stop
    /\ ~connected

\* C5: a connection that succeeds is the last attempt of the loop, on
\* whichever attempt 1..stop it happens; the loop is then left, the call
\* does not raise "Unable to communicate", and "# Success!" is printed
\* unless quiet.
C5_SuccessOnAttemptKStopsLoop ==
    /\ \A k \in DOMAIN log :
            log[k] = "connect_ok" => \A j \in (k + 1)..Len(log) : log[j] \notin ProbeEvents
    /\ Count("connect_ok") <= 1
    /\ connected <=> Count("connect_ok") = 1
    /\ connected =>
            /\ Attempts \in 1..stop
            /\ i > stop
            /\ err # Unreachable
            /\ (pc \notin { "probe", "probe_check" } /\ ~quiet) => Printed(<< "# Success!" >>)

\* C5 witness: the connection succeeded on the last allowed attempt and the
\* call returned.
C5_Witness ==
    /\ pc = "returned"
    /\ connected
    /\ Count("connect_error") = stop - 1
    /\ Attempts = stop

\* C6 (as claimed): when a seed file cannot be located the call ends with
\* MissingInstallationFile naming it, and nothing has been done: the target
\* directory was neither removed nor created, no script was written and no
\* bootstrap subprocess was started.
C6_MissingSeedFileNoSideEffect ==
    (err.exc = "MissingInstallationFile" /\ err.msg \in { SeedFiles[k] : k \in DOMAIN SeedFiles }) =>
        /\ Events \cap { "rmtree", "mkdir", "write_script", "popen_bootstrap" } = {}
        /\ ~bootFile
        /\ ~Started("bootstrap")

\* C7 (as claimed): whenever the bootstrap subprocess has been started, the
\* target directory exists and holds none of the files of before the call.
C7_BootstrapDirEmpty ==
    Started("bootstrap") => dirExists /\ dirFiles = {}

\* The port is an integer in 1..65535.
ValidPort(p) == IsNumber(p) /\ IntOf(p) \in 1..65535

BadParams == new_data = "" \/ ~ValidPort(new_port)

\* os.mkdir(new_data) was called and did not raise.
DirCreated == "mkdir" \in Events /\ ~(pc = "mkdir" /\ err # NoErr)

\* C8 (as claimed): bad parameters are rejected with a ValidationError
\* before any side effect: no directory removed or created, no script
\* written, no subprocess started, and the call never returns normally.
C8_BadParamsRejectedAtEntry ==
    BadParams =>
        /\ "rmtree" \notin Events
        /\ ~DirCreated
        /\ ~bootFile /\ "write_script" \notin Events
        /\ procs = << >>
        /\ pc # "returned"
        /\ (Terminated /\ pc # "start") => err.exc = "ValidationError"

\* C9 (as claimed): with a credential requested and an admin command that
\* exits non-zero, the call ends with CredentialAssignmentFailed carrying the
\* exit code, and the connection information with the credential is not
\* printed.
C9_AdminFailureReported ==
    (rootpass # "" /\ res.admin > 0) =>
        /\ pc # "returned"
        /\ Terminated => err = CredentialAssignmentFailed(res.admin)
        /\ ~Printed(ConnStr)

\* C10: with an empty rootpass no admin process is started and a call whose
\* probe succeeded returns normally; the admin command is issued only with a
\* non-empty rootpass after a successful probe, and when the call is over it
\* has been issued exactly in those executions.
C10_AdminIffPasswordAndReady ==
    /\ rootpass = "" => ~Started("admin") /\ "popen_admin" \notin Events
    /\ "popen_admin" \in Events => rootpass # "" /\ connected
    /\ Count("popen_admin") <= 1
    /\ Terminated => ("popen_admin" \in Events <=> (rootpass # "" /\ connected))
    /\ (Terminated /\ rootpass = "" /\ connected) => pc = "returned" /\ err = NoErr

\* C10 witness: the probe succeeded, rootpass is empty, the call returned
\* and no admin command was issued.
C10_Witness ==
    /\ pc = "returned"
    /\ connected
    /\ rootpass = ""
    /\ "popen_admin" \notin Events

\* "Unable to create directory '%s'" % new_data
UnableToCreate == Err("MySQLUtilError", "Unable to create directory")

\* C11: a failed os.mkdir ends the call with "Unable to create directory"
\* and nothing follows: the source is not asked for its basedir, no script is
\* written, no child is started; the basedir is only asked for when the
\* directory exists.
C11_MkdirFailureAborts ==
    /\ (pc = "mkdir" /\ Terminated) => err = UnableToCreate
    /\ err = UnableToCreate =>
            /\ pc = "mkdir"
            /\ log[Len(log)] = "mkdir"
            /\ ~dirExists
            /\ "query_basedir" \notin Events
            /\ "write_script" \notin Events
            /\ ~bootFile
            /\ procs = << >>
            /\ ~ENABLED Next
    /\ "query_basedir" \in Events => dirExists

\* C11 witness: os.mkdir of a proper path failed and the call has raised.
C11_Witness ==
    /\ err = UnableToCreate
    /\ new_data # ""
    /\ log[Len(log)] = "mkdir"

\* C12 (as claimed): a call that returns has produced the connection
\* coordinates, whatever verbose and quiet are.
C12_SuccessYieldsCoordinates ==
    pc = "returned" => Printed(ConnStr)

\* C13: nothing is rolled back.  The server process is never waited for (nor
\* is there a statement that ends it), on every path once the directory
\* preparation is over the target directory exists and is not removed again,
\* and a call that polled or returned has left the server process started.
C13_NoRollback ==
    /\ "wait_server" \notin Events
    /\ \A k \in DOMAIN log : log[k] = "rmtree" => k <= 2
    /\ pc \notin { "start", "rmtree", "mkdir" } => dirExists
    /\ (Attempts > 0 \/ pc = "returned") => Started("server")
    /\ \A k \in DOMAIN log :
            log[k] \in { "wait_bootstrap", "wait_admin" } => k > 1 /\ log[k - 1] \in { "popen_bootstrap", "popen_admin" }

\* C13 witness: the retries are exhausted, the call has raised, and the
\* server process and the directory are left as they were.
C13_Witness ==
    /\ err = Unreachable
    /\ Started("server")
    /\ dirExists
    /\ "wait_server" \notin Events

\* C14: a call whose children exit terminates, with one outcome (it returns
\* or it raises, and then nothing changes any more), and the readiness loop
\* never makes more than stop attempts.
C14_Terminates ==
    /\ <>Terminated
    /\ [](Attempts <= stop /\ i <= stop + 1)
    /\ [](~(pc = "returned" /\ err # NoErr))
    /\ [][Terminated => UNCHANGED vars]_vars

\* C14 witness: a call that returned after an attempt that failed, an
\* attempt that succeeded and an admin command that exited.
C14_Witness ==
    /\ pc = "returned"
    /\ Count("connect_error") = 1
    /\ connected
    /\ res.admin = 0

\* C15: in one call the directory is created, the script written, the
\* bootstrap started and waited for, the server launched and the admin
\* command run at most once each; only the connection attempt is repeated.
C15_OnlyProbeRepeats ==
    \A ev \in Events : Count(ev) > 1 => ev \in ProbeEvents

\* C15 witness: several connection attempts, every other step once.
C15_Witness ==
    /\ pc = "returned"
    /\ Attempts = 3
    /\ Count("mkdir") = 1
    /\ Count("popen_bootstrap") = 1
    /\ Count("popen_server") = 1
    /\ Count("popen_admin") = 1

\* The command line of the child of that kind.
CmdOf(kind) == procs[CHOOSE k \in DOMAIN procs : procs[k].kind = kind].cmd

Has(cmd, piece) == \E j \in DOMAIN cmd : cmd[j] = piece

\* C16 (as claimed): the launch command carries datadir, tmpdir = datadir,
\* the pid file inside datadir, the port, the server id and the resolved
\* basedir; the extra options unchanged, with --user=root exactly when there
\* are extra options; and the socket inside datadir exactly on posix.
C16_LaunchCommand ==
    Started("server") =>
        LET c == CmdOf("server")
        IN  /\ Has(c, << "--datadir=", new_data >>)
            /\ Has(c, << "--tmpdir=", new_data >>)
            /\ Has(c, << "--pid-file=", new_data, "/clone.pid" >>)
            /\ Has(c, << "--port=", new_port >>)
            /\ Has(c, << "--server-id=", new_id >>)
            /\ Has(c, << "--basedir=" >> \o mysql_basedir)
            /\ mysqld_options # "" => Has(c, << mysqld_options >>)
            /\ Has(c, << "--user=root" >>) <=> mysqld_options # ""
            /\ Has(c, << "--socket=", new_data, "/mysql.sock" >>) <=> posix

\* C17: with quiet nothing is printed on any path and every child has its
\* output sent to the null device, also with verbose; a child's output is
\* shown exactly when verbose is set and quiet is not.
C17_QuietPrintsNothing ==
    /\ quiet => out = << >>
    /\ \A k \in DOMAIN procs : procs[k].devnull <=> ~(verbose /\ ~quiet)
    /\ Printed(<< "# trying again..." >>) => verbose /\ ~quiet

\* C17 witness: a call with quiet and verbose that started all three
\* children and returned.
C17_Witness ==
    /\ quiet
    /\ verbose
    /\ pc = "returned"
    /\ Len(procs) = 3

\* The script as the specification describes it.
ExpectedScript ==
    << "CREATE DATABASE mysql;", "USE mysql;",
       "mysql_system_tables.sql", "mysql_system_tables_data.sql",
       "mysql_test_data_timezone.sql", "fill_help_tables.sql" >>

\* C18: when the bootstrap subprocess is started the script is the preamble
\* followed by the four seed files in their order, complete and closed, and
\* the file is there while the subprocess runs.
C18_ScriptContents ==
    /\ "popen_bootstrap" \in Events => script = ExpectedScript /\ scriptClosed
    /\ pc = "wait_bootstrap" => bootFile
    /\ Started("bootstrap") => Has(CmdOf("bootstrap"), << "<", "bootstrap.sql" >>)

\* C18 witness: the bootstrap subprocess is running on the whole script.
C18_Witness ==
    /\ pc = "wait_bootstrap"
    /\ Started("bootstrap")
    /\ Len(script) = 6

\* C19: while the source has not been connected to, nothing is touched: the
\* target directory and its files, the script and the children stay as they
\* are; a call that fails to connect has done nothing else; the directory
\* is removed only after the connection.
C19_SourceFailureTouchesNothing ==
    /\ [][pc = "start" => UNCHANGED << fsVars, procs >>]_vars
    /\ [](err.exc = "ConnectionError" =>
            /\ pc = "start"
            /\ log = << "connect_source" >>
            /\ procs = << >>
            /\ ~bootFile)
    /\ [](\A k \in DOMAIN log : log[k] = "rmtree" => k > 1 /\ log[1] = "connect_source")

\* C19 witness: the connection failed and the existing directory still has
\* its files.
C19_Witness ==
    /\ err.exc = "ConnectionError"
    /\ dirExists
    /\ dirFiles = 1..MaxFiles

SocketPath == << new_data, "/mysql.sock" >>

\* C20: on posix the probe, the admin command and the report all name the
\* socket mysql.sock under new_data that the server was launched with; on
\* other platforms the three use the requested port and no socket.
C20_OneTransport ==
    /\ (pc \in { "probe", "probe_check" } /\ posix) => conn.unix_socket = SocketPath
    /\ (pc \in { "probe", "probe_check" } /\ ~posix) =>
            conn.unix_socket = << >> /\ conn.port = IntOf(new_port)
    /\ pc \in { "probe", "probe_check" } => Has(CmdOf("server"), << "--port=", new_port >>)
    /\ (pc \in { "probe", "probe_check" } /\ posix) =>
            Has(CmdOf("server"), << "--socket=" >> \o SocketPath)
    /\ Started("admin") =>
            LET c == CmdOf("admin")
            IN  IF posix
                THEN /\ Has(c, << "--socket=" >> \o SocketPath)
                     /\ \A j \in DOMAIN c : c[j][1] # "--port="
                ELSE /\ \E j \in DOMAIN c :
                            /\ c[j][1] = "--port="
                            /\ IntOf(c[j][2]) = IntOf(new_port)
                     /\ \A j \in DOMAIN c : c[j][1] # "--socket="
    /\ (pc = "returned" /\ ~quiet) =>
            \E k \in DOMAIN out :
                /\ out[k][1] = "# Connection Information:"
                /\ LET n == Len(out[k])
                   IN  IF posix
                       THEN SubSeq(out[k], n - 2, n) = << " --socket=" >> \o SocketPath
                       ELSE SubSeq(out[k], n - 1, n) = << " --port=", new_port >>
                /\ posix => \A j \in DOMAIN out[k] : out[k][j] # " --port="
                /\ ~posix => \A j \in DOMAIN out[k] : out[k][j] # " --socket="

\* C20 witness: a call without posix that set the password and reported.
C20_Witness ==
    /\ pc = "returned"
    /\ ~posix
    /\ ~quiet
    /\ Started("admin")

====
